---- MODULE Spec2Model ----
(***************************************************************************)
(* Server-settings resolution (detectServerSettings), the HTTPS settings   *)
(* loader (readHttpsSettings) and the build/dev orchestration              *)
(* (runNetlifyBuild) of src/utils/detect-server-settings.mjs.              *)
(*                                                                         *)
(* JavaScript values are modelled by what the code does with them:         *)
(*   - a string property is only tested for truthiness and for its type,   *)
(*     so `undefined` and '' are one value (Undefined) and every truthy    *)
(*     non-string is one value (NotAString);                               *)
(*   - a port property likewise: NoPort is undefined/0, NotANumber is a    *)
(*     truthy non-number (port = "8080" in netlify.toml);                  *)
(*   - an object is a record over all its field names, an absent field     *)
(*     holding the undefined value of its type; an optional list or        *)
(*     object is None or Some(v).                                          *)
(***************************************************************************)
EXTENDS Integers, Sequences, FiniteSets, TLC

VARIABLES
    devConfig,            \* argument devConfig of detectServerSettings
    options,              \* argument options (the --dir flag)
    project,              \* argument project (what build-info reports)
    occupied,             \* environment: TCP ports that are in use
    internalFunctionsDir, \* environment: .netlify/functions-internal exists
    readable,             \* environment: files readFile can read
    pc,                   \* position of the running detectServerSettings call
    settings,             \* local `settings` of detectServerSettings
    result,               \* the ServerSettings the call returned
    error,                \* the error the call threw
    acquired,             \* history: port acquisitions, in order
    detectionRan,         \* history: the framework detector was consulted
    calls,                \* number of the running call
    prev,                 \* outcome of the previous call
    httpsOptions,         \* argument options of readHttpsSettings
    httpsPc,              \* position of the running readHttpsSettings call
    reads,                \* the readFile calls issued, in order
    settled,              \* what Promise.allSettled resolved with
    httpsError,           \* the error readHttpsSettings threw
    httpsValue,           \* the HttpsSettings it returned
    buildArgs,            \* arguments and collaborators of runNetlifyBuild
    buildPc,              \* position of the running runNetlifyBuild call
    internalDir,          \* entries of the .netlify internal directory
    trace,                \* history: calls runNetlifyBuild made, in order
    frameworkHost,        \* settings.frameworkHost
    returned,             \* what runNetlifyBuild returned
    cliArgs,              \* arguments of the running CLI invocation
    telemetryDisabled,    \* user-level setting: telemetry is opted out of
    startDisabled,        \* history: the setting when the invocation began
    telPc,                \* position of the running CLI invocation
    requests,             \* requests the tracking endpoint got in this invocation
    invocations,          \* number of the running CLI invocation
    mergeFrameworkSettings, \* argument frameworkSettings of mergeSettings
    config,               \* argument config of getConfigWithPlugins
    configPc,             \* position of the running getConfigWithPlugins call
    configOut             \* what getConfigWithPlugins returned

httpsVars == <<httpsOptions, httpsPc, reads, settled, httpsError, httpsValue>>
buildVars == <<buildArgs, buildPc, internalDir, trace, frameworkHost, returned>>
telemetryVars == <<cliArgs, telemetryDisabled, startDisabled, telPc, requests, invocations>>
configVars == <<config, configPc, configOut>>

vars == <<devConfig, options, project, occupied, internalFunctionsDir, readable,
          pc, settings, result, error, acquired, detectionRan, calls, prev,
          httpsVars, buildVars, telemetryVars, mergeFrameworkSettings, configVars>>

inputs == <<devConfig, options, project, occupied, internalFunctionsDir, readable,
            httpsVars, buildVars, telemetryVars, mergeFrameworkSettings, configVars>>

-----------------------------------------------------------------------------
(* Values *)

Undefined == "undefined"
NotAString == "<non-string>"
NoPort == 0
NotANumber == -1
None == <<>>
Some(v) == <<v>>

IsSet(v) == v # Undefined
IsPort(p) == p # NoPort

DEFAULT_PORT == 8888
DEFAULT_STATIC_PORT == 3999

Cwd == "<cwd>"

\* Error messages, without their formatting.
PortsConflictError == "port and targetPort options cannot have same values"
AppPortConflictError == "The port option you specified conflicts with the port of your application"
CustomRequiresError == "command and targetPort properties are required when framework is set to #custom"
StaticPortError == "Could not acquire configured static server port"
PortError == "Could not acquire required port"
UnsupportedFrameworkError == "getFramework: framework is not supported"

-----------------------------------------------------------------------------
(* Bounds *)

MaxOccupied == 1     \* how many of the well-known ports are in use at once
NumEphemeral == 2    \* size of the range the OS assigns free ports from
MaxCalls == 2        \* how many times detectServerSettings is called

-----------------------------------------------------------------------------
(* Ports *)

EphemeralBase == 49152
EphemeralPorts == EphemeralBase .. (EphemeralBase + NumEphemeral - 1)
KnownPorts == {DEFAULT_STATIC_PORT, 5000, DEFAULT_PORT, 9999}
AllPorts == KnownPorts \cup EphemeralPorts

IsFree(p) == p \in AllPorts /\ p \notin occupied

\* getPort never given the preferred port.
GetPort_AnyPort(preferred) == {p \in EphemeralPorts : IsFree(p)}

\* getPort({ port }) of the get-port package: the preferred port when it is
\* free, otherwise (and for port 0) a free port assigned by the OS.
GetPort(preferred) ==
    IF IsPort(preferred) /\ IsFree(preferred) THEN {preferred}
    ELSE {p \in EphemeralPorts : IsFree(p)}

\* acquirePort of ./dev.mjs: a configured port is returned when it is free...
AcquirePort(configuredPort, defaultPort) ==
    IF IsPort(configuredPort) THEN {configuredPort}
    ELSE IF IsFree(defaultPort) THEN {defaultPort}
    ELSE {p \in AllPorts : IsFree(p) /\ p > defaultPort}

\* ... and acquirePort throws errorMessage when the configured port is not.
AcquireFails(configuredPort) == IsPort(configuredPort) /\ ~IsFree(configuredPort)

-----------------------------------------------------------------------------
(* Validation helpers *)

validateStringProperty(value) == ~(IsSet(value) /\ value = NotAString)
validateNumberProperty(value) == ~(IsPort(value) /\ value = NotANumber)

\* validateFrameworkConfig without the comparison of line 96.
validateFrameworkConfig_NoConflictCheck(dc) ==
    IF ~validateStringProperty(dc.command) THEN "TypeError: command"
    ELSE IF ~validateNumberProperty(dc.port) THEN "TypeError: port"
    ELSE IF ~validateNumberProperty(dc.targetPort) THEN "TypeError: targetPort"
    ELSE "none"

\* The error validateFrameworkConfig throws, or "none".
validateFrameworkConfig(dc) ==
    IF ~validateStringProperty(dc.command) THEN "TypeError: command"
    ELSE IF ~validateNumberProperty(dc.port) THEN "TypeError: port"
    ELSE IF ~validateNumberProperty(dc.targetPort) THEN "TypeError: targetPort"
    ELSE IF IsPort(dc.targetPort) /\ dc.targetPort = dc.port THEN PortsConflictError
    ELSE "none"

\* validateConfiguredPort comparing with the configured targetPort only.
validateConfiguredPort_TargetPort(dc, detectedPort) == IsPort(dc.port) /\ dc.port = dc.targetPort

\* validateConfiguredPort never throwing.
validateConfiguredPort_Never(dc, detectedPort) == FALSE

\* TRUE when validateConfiguredPort throws.
validateConfiguredPort(dc, detectedPort) == IsPort(dc.port) /\ dc.port = detectedPort

\* hasCommandAndTargetPort with || for &&.
hasCommandAndTargetPort_Either(dc) == IsSet(dc.command) \/ IsPort(dc.targetPort)

hasCommandAndTargetPort(dc) == IsSet(dc.command) /\ IsPort(dc.targetPort)

-----------------------------------------------------------------------------
(* Settings objects *)

EmptySettings ==
    [command |-> Undefined, useStaticServer |-> FALSE, frameworkPort |-> NoPort,
     dist |-> Undefined, framework |-> Undefined, env |-> Undefined,
     pollingStrategies |-> None, plugins |-> None, functions |-> Undefined]

Or(a, b) == IF IsSet(a) THEN a ELSE b

getDefaultDist == Cwd

\* handleStaticServer honouring targetPort instead of ignoring it.
handleStaticServer_TargetPort(dc, opts, frameworkPort) ==
    [EmptySettings EXCEPT
        !.command = dc.command,
        !.useStaticServer = TRUE,
        !.frameworkPort = IF IsPort(dc.targetPort) THEN dc.targetPort ELSE frameworkPort,
        !.dist = Or(opts.dir, Or(dc.publish, getDefaultDist))]

\* What handleStaticServer returns once the static-server port is acquired.
handleStaticServer(dc, opts, frameworkPort) ==
    [EmptySettings EXCEPT
        !.command = dc.command,
        !.useStaticServer = TRUE,
        !.frameworkPort = frameworkPort,
        !.dist = Or(opts.dir, Or(dc.publish, getDefaultDist))]

pluginsToAlwaysInstall == {"@netlify/plugin-nextjs"}

Includes(seq, x) == \E i \in 1..Len(seq) : seq[i] = x

RECURSIVE getPluginsToAutoInstall(_, _)
getPluginsToAutoInstall(pluginsInstalled, pluginsRecommended) ==
    IF pluginsRecommended = <<>> THEN <<>>
    ELSE LET n == Len(pluginsRecommended)
             plugin == pluginsRecommended[n]
             acc == getPluginsToAutoInstall(pluginsInstalled, SubSeq(pluginsRecommended, 1, n - 1))
         IN IF Includes(pluginsInstalled, plugin) /\ plugin \notin pluginsToAlwaysInstall
            THEN acc ELSE Append(acc, plugin)

getSettingsFromDetectedSettings(s) ==
    [EmptySettings EXCEPT
        !.command = s.devCommand,
        !.frameworkPort = s.frameworkPort,
        !.dist = s.dist,
        !.framework = s.frameworkName,
        !.env = s.env,
        !.pollingStrategies = Some(s.pollingStrategies),
        !.plugins = Some(getPluginsToAutoInstall(s.plugins_from_config_file, s.plugins_recommended))]

\* lines 325-328 of mergeSettings
mergedCommand(dc, frameworkSettings) == Or(dc.command, frameworkSettings.command)
\* line 326 with the operands of || exchanged.
mergedPort_DetectedFirst(dc, frameworkSettings) ==
    IF IsPort(frameworkSettings.frameworkPort) THEN frameworkSettings.frameworkPort
    ELSE dc.targetPort

mergedPort(dc, frameworkSettings) ==
    IF IsPort(dc.targetPort) THEN dc.targetPort ELSE frameworkSettings.frameworkPort
\* line 328 looking at the command only.
mergeUsesStaticServer_CommandOnly(dc, frameworkSettings) ==
    ~IsSet(mergedCommand(dc, frameworkSettings))

mergeUsesStaticServer(dc, frameworkSettings) ==
    ~(IsSet(mergedCommand(dc, frameworkSettings)) /\ IsPort(mergedPort(dc, frameworkSettings)))

\* What mergeSettings returns; staticServerPort is the port it acquired when
\* useStaticServer is true.  An undefined pollingStrategies defaults to [].
mergeSettings(dc, frameworkSettings, staticServerPort) ==
    [EmptySettings EXCEPT
        !.command = mergedCommand(dc, frameworkSettings),
        !.frameworkPort = IF mergeUsesStaticServer(dc, frameworkSettings)
                          THEN staticServerPort ELSE mergedPort(dc, frameworkSettings),
        !.dist = Or(dc.publish, Or(frameworkSettings.dist, getDefaultDist)),
        !.framework = frameworkSettings.framework,
        !.env = frameworkSettings.env,
        !.pollingStrategies = IF frameworkSettings.pollingStrategies = None
                              THEN Some(<<>>) ELSE frameworkSettings.pollingStrategies,
        !.useStaticServer = mergeUsesStaticServer(dc, frameworkSettings)]

handleCustomFramework(dc) ==
    [EmptySettings EXCEPT
        !.command = dc.command,
        !.frameworkPort = dc.targetPort,
        !.dist = Or(dc.publish, getDefaultDist),
        !.framework = "#custom",
        !.pollingStrategies = IF dc.pollingStrategies = None THEN Some(<<>>)
                              ELSE dc.pollingStrategies]

\* The build settings left by the two filters of detectFrameworkSettings.
detectedSettings(proj) ==
    SelectSeq(SelectSeq(proj.buildSettings,
                        LAMBDA s : proj.nonRootWorkspace => s.inCwd),
              LAMBDA s : IsSet(s.devCommand))

\* detectFrameworkSettings: None for `undefined`; with several matches the
\* user picks one at the prompt (proj.answer).
detectFrameworkSettings(proj) ==
    LET matches == detectedSettings(proj)
    IN IF Len(matches) = 1 THEN Some(getSettingsFromDetectedSettings(matches[1]))
       ELSE IF Len(matches) > 1
            THEN Some(getSettingsFromDetectedSettings(matches[proj.answer]))
       ELSE None

-----------------------------------------------------------------------------
(* readHttpsSettings *)

KeyReadError == "Error reading private key file"
CertReadError == "Error reading certificate file"

\* lines 27-41: the TypeError thrown for `o`, or "none".
httpsOptionsError(o) ==
    IF o.shape # "object" \/ ~IsSet(o.keyFile) \/ ~IsSet(o.certFile)
    THEN "TypeError: https options should be an object with keyFile and certFile"
    ELSE IF o.keyFile = NotAString
    THEN "TypeError: Private key file configuration should be a string"
    ELSE IF o.certFile = NotAString
    THEN "TypeError: Certificate file configuration should be a string"
    ELSE "none"

\* lines 43-46: the outcomes of the two reads.
allSettled(o) ==
    [key |-> IF o.keyFile \in readable THEN "fulfilled" ELSE "rejected",
     cert |-> IF o.certFile \in readable THEN "fulfilled" ELSE "rejected"]

\* lines 48-53: the error thrown after the reads have settled, or "none".
settledError(outcomes) ==
    IF outcomes.key = "rejected" THEN KeyReadError
    ELSE IF outcomes.cert = "rejected" THEN CertReadError
    ELSE "none"

\* The error readHttpsSettings throws for `o`, or "none".
readHttpsError(o) ==
    IF httpsOptionsError(o) # "none" THEN httpsOptionsError(o)
    ELSE settledError(allSettled(o))

readFile(f) == <<"contents of", f>>
resolve(f) == <<Cwd, f>>

readHttpsValue(o) ==
    [key |-> readFile(o.keyFile), cert |-> readFile(o.certFile),
     keyFilePath |-> resolve(o.keyFile), certFilePath |-> resolve(o.certFile)]

-----------------------------------------------------------------------------
(* Inputs of detectServerSettings *)

KeyFile == "key.pem"
CertFile == "cert.pem"
NoHttps == [shape |-> "undefined", keyFile |-> Undefined, certFile |-> Undefined]
FileHttps == [shape |-> "object", keyFile |-> KeyFile, certFile |-> CertFile]

Frameworks == {"#static", "#auto", "#custom", "gatsby", "unknown-framework", Undefined}

WellTypedConfigs ==
    [framework : Frameworks,
     command : {Undefined, "npm run dev"},
     port : {NoPort, 5000, DEFAULT_PORT},
     targetPort : {NoPort, DEFAULT_PORT},
     staticServerPort : {NoPort, 5000},
     functionsPort : {NoPort, 9999},
     publish : {Undefined, "public"},
     functions : {Undefined, "functions"},
     https : {NoHttps, FileHttps},
     jwtSecret : {Undefined},
     jwtRolePath : {Undefined},
     pollingStrategies : {None}]

\* netlify.toml files with a value of the wrong type in one place.
IllTypedConfigs ==
    LET base == {c \in WellTypedConfigs :
                    /\ c.port = NoPort /\ c.staticServerPort = NoPort
                    /\ c.functionsPort = NoPort /\ c.publish = Undefined
                    /\ c.functions = Undefined /\ c.https = NoHttps}
    IN {[c EXCEPT !.framework = NotAString] : c \in base}
       \cup {[c EXCEPT !.command = NotAString] : c \in base}
       \cup {[c EXCEPT !.port = NotANumber] : c \in base}
       \cup {[c EXCEPT !.targetPort = NotANumber] : c \in base}
       \cup {[c EXCEPT !.port = NotANumber, !.targetPort = NotANumber] : c \in base}
       \cup {[c EXCEPT !.staticServerPort = NotANumber] : c \in base}

DevConfigs == WellTypedConfigs \cup IllTypedConfigs

Setting(devCommand, frameworkPort, dist, name, inCwd) ==
    [devCommand |-> devCommand, frameworkPort |-> frameworkPort, dist |-> dist,
     frameworkName |-> name, env |-> "<framework env>", pollingStrategies |-> <<"TCP">>,
     plugins_from_config_file |-> <<"@netlify/plugin-nextjs", "plugin-a">>,
     plugins_recommended |-> <<"@netlify/plugin-nextjs", "plugin-a", "plugin-b">>,
     inCwd |-> inCwd]

FullSetting == Setting("gatsby develop", 5000, "dist", "Gatsby", TRUE)
NoPortSetting == Setting("npm start", NoPort, Undefined, "Create React App", TRUE)
NoCommandSetting == Setting(Undefined, 5000, "dist", "Hugo", TRUE)
OtherPackageSetting == Setting("gatsby develop", 5000, "dist", "Gatsby", FALSE)

Project(buildSettings, nonRoot, answer, named) ==
    [buildSettings |-> buildSettings, nonRootWorkspace |-> nonRoot, answer |-> answer,
     frameworks |-> {"gatsby"}, named |-> named]

Projects ==
    {Project(<<>>, FALSE, 1, FullSetting),
     Project(<<FullSetting>>, FALSE, 1, FullSetting),
     Project(<<NoCommandSetting>>, FALSE, 1, NoCommandSetting),
     Project(<<OtherPackageSetting, NoPortSetting>>, TRUE, 1, NoPortSetting)}
    \cup {Project(<<FullSetting, NoPortSetting>>, FALSE, a, FullSetting) : a \in 1..2}

OccupiedSets == {o \in SUBSET KnownPorts : Cardinality(o) <= MaxOccupied}

EmptyResult ==
    [s \in {"command", "dist", "framework", "env", "functions", "jwtSecret", "jwtRolePath"} |-> Undefined]
    @@ [s \in {"frameworkPort", "port", "functionsPort"} |-> NoPort]
    @@ [s \in {"pollingStrategies", "plugins", "https"} |-> None]
    @@ [useStaticServer |-> FALSE]

NoCall == [pc |-> "none", result |-> EmptyResult, error |-> "none"]

TypeOK ==
    /\ devConfig \in DevConfigs
    /\ options \in [dir : {Undefined, "www"}]
    /\ project \in Projects
    /\ occupied \in OccupiedSets
    /\ internalFunctionsDir \in BOOLEAN
    /\ readable \subseteq {KeyFile, CertFile}
    /\ pc \in {"idle", "start", "merge", "resolved", "validated", "done", "failed"}
    /\ DOMAIN settings = DOMAIN EmptySettings
    /\ DOMAIN result = DOMAIN EmptyResult
    /\ calls \in 1..MaxCalls
    /\ detectionRan \in BOOLEAN

\* A value the code cannot read in this invocation is kept at one value:
\* publish behind --dir (line 173), functionsPort and the internal functions
\* directory when line 405 does not look at them, the files without https.
Relevant ==
    /\ IsSet(options.dir) => devConfig.publish = Undefined
    /\ IsSet(devConfig.functions) => ~internalFunctionsDir
    /\ IsPort(devConfig.functionsPort) => (IsSet(devConfig.functions) \/ internalFunctionsDir)
    /\ devConfig.https = NoHttps => readable = {KeyFile, CertFile}

HttpsIdle ==
    /\ httpsOptions = NoHttps
    /\ httpsPc = "idle"
    /\ reads = <<>>
    /\ settled = [key |-> "pending", cert |-> "pending"]
    /\ httpsError = "none"
    /\ httpsValue = None

NoBuildArgs ==
    [timeline |-> "none", configExists |-> FALSE, buildSuccess |-> FALSE,
     startDevSuccess |-> FALSE, startDevError |-> FALSE, startDevCallsBack |-> FALSE,
     ipVersion |-> 4, settings |-> [command |-> Undefined, useStaticServer |-> FALSE]]

BuildIdle ==
    /\ buildArgs = NoBuildArgs
    /\ buildPc = "idle"
    /\ internalDir = {}
    /\ trace = <<>>
    /\ frameworkHost = Undefined
    /\ returned = None

NoCliArgs == [flag |-> "none", command |-> "none"]

TelemetryIdle ==
    /\ cliArgs = NoCliArgs
    /\ telemetryDisabled = FALSE
    /\ startDisabled = FALSE
    /\ telPc = "idle"
    /\ requests = <<>>
    /\ invocations = 1

NoConfig == [build |-> Undefined, plugins |-> None]

\* mergeSettings and getConfigWithPlugins are not being called on their own.
HelpersIdle ==
    /\ mergeFrameworkSettings = EmptySettings
    /\ config = NoConfig
    /\ configPc = "idle"
    /\ configOut = None

Idle ==
    /\ pc = "start"
    /\ settings = EmptySettings
    /\ result = EmptyResult
    /\ error = "none"
    /\ acquired = <<>>
    /\ detectionRan = FALSE
    /\ calls = 1
    /\ prev = NoCall

Init ==
    /\ devConfig \in DevConfigs
    /\ options \in [dir : {Undefined, "www"}]
    /\ project \in Projects
    /\ occupied \in OccupiedSets
    /\ internalFunctionsDir \in BOOLEAN
    /\ readable \in {{KeyFile, CertFile}, {}}
    /\ Relevant
    /\ Idle
    /\ HttpsIdle
    /\ BuildIdle
    /\ TelemetryIdle
    /\ HelpersIdle

\* The invocations that are repeated.
InitTwice ==
    /\ Init
    /\ ~IsSet(options.dir)
    /\ devConfig.publish = Undefined
    /\ devConfig.https = NoHttps
    /\ devConfig.targetPort # DEFAULT_PORT
    /\ Len(project.buildSettings) < 2

-----------------------------------------------------------------------------
(* detectServerSettings *)

Fail(e) == pc' = "failed" /\ error' = e /\ UNCHANGED <<settings, result>>
Resolve(s) == pc' = "resolved" /\ settings' = s /\ UNCHANGED <<error, result>>
Log(kind, p) == acquired' = Append(acquired, [kind |-> kind, port |-> p])

\* handleStaticServer with its port acquisition (getStaticServerPort);
\* `plugins` is what line 385 assigns afterwards.
StaticServer(plugins) ==
    IF ~validateNumberProperty(devConfig.staticServerPort)
    THEN Fail("TypeError: staticServerPort") /\ UNCHANGED acquired
    ELSE IF AcquireFails(devConfig.staticServerPort)
    THEN Fail(StaticPortError) /\ Log("static", NoPort)
    ELSE \E p \in AcquirePort(devConfig.staticServerPort, DEFAULT_STATIC_PORT) :
            /\ Resolve([handleStaticServer(devConfig, options, p) EXCEPT !.plugins = plugins])
            /\ Log("static", p)

\* mergeSettings with its port acquisition.
Merge(frameworkSettings, plugins) ==
    IF ~mergeUsesStaticServer(devConfig, frameworkSettings)
    THEN /\ Resolve([mergeSettings(devConfig, frameworkSettings, NoPort) EXCEPT !.plugins = plugins])
         /\ UNCHANGED acquired
    ELSE IF AcquireFails(devConfig.staticServerPort)
    THEN Fail(StaticPortError) /\ Log("static", NoPort)
    ELSE \E p \in AcquirePort(devConfig.staticServerPort, DEFAULT_STATIC_PORT) :
            /\ Resolve([mergeSettings(devConfig, frameworkSettings, p) EXCEPT !.plugins = plugins])
            /\ Log("static", p)

\* line 363
InvalidFramework ==
    /\ pc = "start"
    /\ ~validateStringProperty(devConfig.framework)
    /\ Fail("TypeError: framework")
    /\ UNCHANGED <<inputs, acquired, detectionRan, calls, prev>>

\* line 385 defaulting to an empty plugin list.
detectedPlugins_EmptyList(frameworkSettings) ==
    IF frameworkSettings = None THEN Some(<<>>) ELSE frameworkSettings[1].plugins

\* line 385: frameworkSettings && frameworkSettings.plugins
detectedPlugins(frameworkSettings) ==
    IF frameworkSettings = None THEN None ELSE frameworkSettings[1].plugins

\* lines 368-370
StaticBranch ==
    /\ pc = "start"
    /\ validateStringProperty(devConfig.framework)
    /\ IsSet(options.dir) \/ devConfig.framework = "#static"
    /\ StaticServer(None)
    /\ UNCHANGED <<inputs, detectionRan, calls, prev>>

\* lines 371-385
AutoBranch ==
    /\ pc = "start"
    /\ ~IsSet(options.dir)
    /\ devConfig.framework = "#auto"
    /\ LET runDetection == ~hasCommandAndTargetPort(devConfig)
           frameworkSettings == IF runDetection THEN detectFrameworkSettings(project) ELSE None
       IN /\ detectionRan' = (detectionRan \/ runDetection)
          /\ IF frameworkSettings = None
             THEN StaticServer(detectedPlugins(frameworkSettings))
             ELSE IF validateFrameworkConfig(devConfig) # "none"
             THEN Fail(validateFrameworkConfig(devConfig)) /\ UNCHANGED acquired
             ELSE Merge(frameworkSettings[1], detectedPlugins(frameworkSettings))
    /\ UNCHANGED <<inputs, calls, prev>>

\* lines 386-389
CustomBranch ==
    /\ pc = "start"
    /\ ~IsSet(options.dir)
    /\ devConfig.framework = "#custom"
    /\ IF validateFrameworkConfig(devConfig) # "none"
       THEN Fail(validateFrameworkConfig(devConfig))
       ELSE IF ~hasCommandAndTargetPort(devConfig)
       THEN Fail(CustomRequiresError)
       ELSE Resolve(handleCustomFramework(devConfig))
    /\ UNCHANGED <<inputs, acquired, detectionRan, calls, prev>>

\* lines 390-394
ForcedBranch ==
    /\ pc = "start"
    /\ ~IsSet(options.dir)
    /\ IsSet(devConfig.framework)
    /\ devConfig.framework \notin {"#static", "#auto", "#custom", NotAString}
    /\ IF validateFrameworkConfig(devConfig) # "none"
       THEN Fail(validateFrameworkConfig(devConfig)) /\ UNCHANGED <<acquired, detectionRan>>
       ELSE /\ detectionRan' = TRUE
            /\ IF devConfig.framework \notin project.frameworks
               THEN Fail(UnsupportedFrameworkError) /\ UNCHANGED acquired
               ELSE Merge(getSettingsFromDetectedSettings(project.named), None)
    /\ UNCHANGED <<inputs, calls, prev>>

\* no branch of lines 368-394 applies: settings stays {}
NoBranch ==
    /\ pc = "start"
    /\ ~IsSet(options.dir)
    /\ ~IsSet(devConfig.framework)
    /\ Resolve(EmptySettings)
    /\ UNCHANGED <<inputs, acquired, detectionRan, calls, prev>>

\* line 396
ValidatePort ==
    /\ pc = "resolved"
    /\ IF validateConfiguredPort(devConfig, settings.frameworkPort)
       THEN Fail(AppPortConflictError)
       ELSE pc' = "validated" /\ UNCHANGED <<settings, result, error>>
    /\ UNCHANGED <<inputs, acquired, detectionRan, calls, prev>>

\* The object of lines 407-415.
ServerSettings(s, acquiredPort, functionsDir, functionsPort, https) ==
    [command |-> s.command, useStaticServer |-> s.useStaticServer,
     frameworkPort |-> s.frameworkPort, dist |-> s.dist, framework |-> s.framework,
     env |-> s.env, pollingStrategies |-> s.pollingStrategies, plugins |-> s.plugins,
     port |-> acquiredPort,
     jwtSecret |-> Or(devConfig.jwtSecret, "secret"),
     jwtRolePath |-> Or(devConfig.jwtRolePath, "app_metadata.authorization.roles"),
     functions |-> functionsDir,
     functionsPort |-> functionsPort,
     https |-> https]

\* lines 398-415
Finish ==
    /\ pc = "validated"
    /\ IF AcquireFails(devConfig.port)
       THEN Fail(PortError) /\ Log("port", NoPort)
       ELSE \E acquiredPort \in AcquirePort(devConfig.port, DEFAULT_PORT) :
            LET functionsDir == Or(devConfig.functions, settings.functions)
                shouldStartFunctionsServer == IsSet(functionsDir) \/ internalFunctionsDir
                wantsHttps == devConfig.https.shape # "undefined"
            IN \E functionsPort \in (IF shouldStartFunctionsServer
                                     THEN GetPort(devConfig.functionsPort) ELSE {NoPort}) :
                /\ acquired' = acquired \o <<[kind |-> "port", port |-> acquiredPort]>>
                       \o (IF shouldStartFunctionsServer
                           THEN <<[kind |-> "functions", port |-> functionsPort]>> ELSE <<>>)
                       \o (IF wantsHttps THEN <<[kind |-> "https", port |-> NoPort]>> ELSE <<>>)
                /\ IF wantsHttps /\ readHttpsError(devConfig.https) # "none"
                   THEN Fail(readHttpsError(devConfig.https))
                   ELSE /\ pc' = "done"
                        /\ result' = ServerSettings(settings, acquiredPort, functionsDir, functionsPort,
                                        IF wantsHttps THEN Some(readHttpsValue(devConfig.https)) ELSE None)
                        /\ UNCHANGED <<settings, error>>
    /\ UNCHANGED <<inputs, detectionRan, calls, prev>>

\* detectServerSettings is called once more with the same arguments, in the
\* same environment.
CallAgain ==
    /\ pc \in {"done", "failed"}
    /\ calls < MaxCalls
    /\ calls' = calls + 1
    /\ prev' = [pc |-> pc, result |-> result, error |-> error]
    /\ pc' = "start"
    /\ settings' = EmptySettings
    /\ result' = EmptyResult
    /\ error' = "none"
    /\ acquired' = <<>>
    /\ detectionRan' = FALSE
    /\ UNCHANGED inputs

Call ==
    \/ InvalidFramework
    \/ StaticBranch
    \/ AutoBranch
    \/ CustomBranch
    \/ ForcedBranch
    \/ NoBranch
    \/ ValidatePort
    \/ Finish

Next == Call

Spec == Init /\ [][Next]_vars

NextTwice == Call \/ CallAgain

SpecTwice == InitTwice /\ [][NextTwice]_vars

-----------------------------------------------------------------------------
(* Properties of detectServerSettings *)

Finished == pc \in {"done", "failed"}
NoDir == ~IsSet(options.dir)
ValidFramework == validateStringProperty(devConfig.framework)
NamedFramework ==
    IsSet(devConfig.framework) /\ devConfig.framework \notin {"#static", "#auto", "#custom", NotAString}
WellTyped ==
    /\ devConfig.command # NotAString
    /\ devConfig.port # NotANumber
    /\ devConfig.targetPort # NotANumber
NothingAcquired == acquired = <<>>
Kinds == {acquired[i].kind : i \in 1..Len(acquired)}
SamePorts == IsPort(devConfig.port) /\ devConfig.port = devConfig.targetPort

\* The build settings detection has after the workspace filter (line 243-247).
workspaceSettings ==
    SelectSeq(project.buildSettings, LAMBDA s : project.nonRootWorkspace => s.inCwd)
DetectionRuns ==
    /\ NoDir
    /\ devConfig.framework = "#auto"
    /\ ~(IsSet(devConfig.command) /\ IsPort(devConfig.targetPort))

\* C1 as stated: whenever port and targetPort are set and equal (numbers), the call
\* fails with the port/targetPort conflict error, for every framework value
\* and --dir setting, and no port has been acquired.
C1_AsStated ==
    (SamePorts /\ WellTyped /\ IsSet(devConfig.framework) /\ ValidFramework) =>
        /\ pc \in {"start", "failed"}
        /\ NothingAcquired
        /\ pc = "failed" => error = PortsConflictError

\* The invocations in which validateFrameworkConfig is reached.
C1_Validated ==
    /\ NoDir
    /\ \/ devConfig.framework = "#custom"
       \/ NamedFramework
       \/ DetectionRuns /\ Len(detectedSettings(project)) > 0

\* C1, amended: when port and targetPort are the same number, --dir is not
\* given and the framework is '#custom', a named framework, or '#auto' with a
\* detection that was run and found a match, the call fails with the
\* port/targetPort conflict error and no port has been acquired.  (On the
\* static-server path targetPort is ignored and nothing compares the two.)
C1_ConflictBeforeAcquisition ==
    (SamePorts /\ WellTyped /\ C1_Validated) =>
        /\ pc \in {"start", "failed"}
        /\ NothingAcquired
        /\ pc = "failed" => error = PortsConflictError

C1_Witness ==
    /\ SamePorts /\ WellTyped /\ C1_Validated
    /\ devConfig.framework = "#auto"
    /\ pc = "failed" /\ error = PortsConflictError

\* C2: with --dir or framework '#static', a successful call returns
\* useStaticServer = true and the frameworkPort that the static-server port
\* acquisition gave (staticServerPort if configured, else 3999 if free, else
\* another free port), whatever targetPort, command and the project are; the
\* framework detector is never consulted.
C2_StaticServerForced ==
    (ValidFramework /\ (IsSet(options.dir) \/ devConfig.framework = "#static")) =>
        /\ ~detectionRan
        /\ pc = "done" =>
            /\ result.useStaticServer
            /\ acquired[1] = [kind |-> "static", port |-> result.frameworkPort]
            /\ IF IsPort(devConfig.staticServerPort)
               THEN result.frameworkPort = devConfig.staticServerPort
               ELSE IF DEFAULT_STATIC_PORT \notin occupied
               THEN result.frameworkPort = DEFAULT_STATIC_PORT
               ELSE result.frameworkPort \in AllPorts \ occupied

C2_Witness ==
    /\ IsSet(options.dir) /\ devConfig.framework = "#auto"
    /\ IsSet(devConfig.command) /\ IsPort(devConfig.targetPort)
    /\ Len(project.buildSettings) > 0
    /\ pc = "done" /\ result.useStaticServer
    /\ result.frameworkPort = DEFAULT_STATIC_PORT

CustomCase == NoDir /\ devConfig.framework = "#custom"
BothConfigured == IsSet(devConfig.command) /\ IsPort(devConfig.targetPort)

\* C3 as stated: with '#custom' and no --dir, a missing command or targetPort
\* makes the call fail with the "command and targetPort are required" error
\* and nothing acquired; with both set and port # targetPort the result
\* carries command, targetPort and '#custom'.
C3_AsStated ==
    (CustomCase /\ WellTyped) =>
        /\ ~BothConfigured =>
            /\ pc \in {"start", "failed"}
            /\ NothingAcquired
            /\ pc = "failed" => error = CustomRequiresError
        /\ (BothConfigured /\ devConfig.port # devConfig.targetPort /\ pc = "done") =>
            /\ result.command = devConfig.command
            /\ result.frameworkPort = devConfig.targetPort
            /\ result.framework = "#custom"

\* C3, amended: with '#custom' and no --dir, a missing command or targetPort
\* makes the call fail with nothing acquired; the error is the "command and
\* targetPort are required" error unless port equals targetPort, and then it
\* is the port/targetPort conflict error, which validateFrameworkConfig
\* raises first.  With both set and port # targetPort a successful result
\* carries command, targetPort and '#custom'.
C3_CustomRequiresBoth ==
    (CustomCase /\ WellTyped) =>
        /\ ~BothConfigured =>
            /\ pc \in {"start", "failed"}
            /\ NothingAcquired
            /\ pc = "failed" =>
                 error = IF SamePorts THEN PortsConflictError ELSE CustomRequiresError
        /\ (BothConfigured /\ devConfig.port # devConfig.targetPort /\ pc = "done") =>
            /\ result.command = devConfig.command
            /\ result.frameworkPort = devConfig.targetPort
            /\ result.framework = "#custom"

C3_Witness ==
    /\ CustomCase
    /\ ~IsSet(devConfig.command) /\ IsPort(devConfig.targetPort) /\ ~SamePorts
    /\ pc = "failed" /\ error = CustomRequiresError

C3_WitnessSuccess ==
    /\ CustomCase /\ BothConfigured
    /\ pc = "done" /\ result.framework = "#custom"

\* Detection returned exactly one match, and that match has no dev command or
\* no frameworkPort.
OneIncompleteMatch ==
    /\ DetectionRuns
    /\ Len(workspaceSettings) = 1
    /\ ~IsSet(workspaceSettings[1].devCommand) \/ ~IsPort(workspaceSettings[1].frameworkPort)

ResolvedSettings == pc \in {"resolved", "validated", "done"}

\* The errors a call can end with that are not about a missing command or port.
OtherErrors ==
    {PortsConflictError, AppPortConflictError, StaticPortError, PortError,
     "TypeError: command", "TypeError: port", "TypeError: targetPort",
     "TypeError: staticServerPort",
     KeyReadError, CertReadError}

\* C4 as stated: with '#auto', no --dir and exactly one detected match that
\* lacks a dev command or a frameworkPort, the resolved settings have
\* useStaticServer = true.
C4_AsStated ==
    (OneIncompleteMatch /\ WellTyped) =>
        /\ ResolvedSettings => settings.useStaticServer
        /\ pc = "done" => result.useStaticServer
        /\ pc = "failed" => error \in OtherErrors

\* C4, amended: with '#auto', no --dir and exactly one detected match that
\* lacks a dev command or a frameworkPort, the call does not fail for the
\* missing value, and the resolved settings have useStaticServer = true
\* unless the match has a dev command and devConfig.targetPort supplies the
\* port; then the framework server is used on targetPort.
C4_IncompleteMatchFallsBack ==
    OneIncompleteMatch =>
        LET suppliedByConfig == /\ IsSet(workspaceSettings[1].devCommand)
                                /\ IsPort(devConfig.targetPort)
        IN /\ ResolvedSettings => (settings.useStaticServer <=> ~suppliedByConfig)
           /\ pc = "done" => (result.useStaticServer <=> ~suppliedByConfig)
           /\ (pc = "done" /\ suppliedByConfig) => result.frameworkPort = devConfig.targetPort
           /\ pc = "failed" => error \in OtherErrors

C4_Witness ==
    /\ OneIncompleteMatch
    /\ IsSet(workspaceSettings[1].devCommand)
    /\ ~IsPort(devConfig.targetPort)
    /\ pc = "done" /\ result.useStaticServer

C4_WitnessNoCommand ==
    /\ OneIncompleteMatch
    /\ ~IsSet(workspaceSettings[1].devCommand)
    /\ pc = "done" /\ result.useStaticServer

\* Static-server resolution alone: the same call with framework '#static'.
StaticAlone(staticPort, acquiredPort, functionsPort) ==
    ServerSettings(handleStaticServer([devConfig EXCEPT !.framework = "#static"], options, staticPort),
                   acquiredPort, devConfig.functions, functionsPort,
                   IF devConfig.https.shape # "undefined"
                   THEN Some(readHttpsValue(devConfig.https)) ELSE None)

NoMatch == DetectionRuns /\ Len(detectedSettings(project)) = 0

StartsFunctions == IsSet(devConfig.functions) \/ internalFunctionsDir

\* C6: a successful result carries every configured port unchanged:
\* devConfig.port as port, devConfig.staticServerPort as frameworkPort when
\* the static server is used, devConfig.functionsPort as functionsPort when
\* the functions server starts; otherwise the call fails.
C6_ConfiguredPortsHonoured ==
    pc = "done" =>
        /\ IsPort(devConfig.port) => result.port = devConfig.port
        /\ (IsPort(devConfig.staticServerPort) /\ result.useStaticServer) =>
               result.frameworkPort = devConfig.staticServerPort
        /\ (IsPort(devConfig.functionsPort) /\ StartsFunctions) =>
               result.functionsPort = devConfig.functionsPort

\* C8: when the port the settings were resolved with equals a configured
\* devConfig.port, the call fails with the application-port conflict error,
\* and by then it has acquired neither the main port nor the functions port
\* nor the HTTPS files.
C8_ConfiguredPortConflict ==
    /\ pc \in {"validated", "done"} =>
           ~(IsPort(devConfig.port) /\ devConfig.port = settings.frameworkPort)
    /\ (pc = "failed" /\ IsPort(devConfig.port) /\ devConfig.port = settings.frameworkPort) =>
           error = AppPortConflictError
    /\ (pc = "failed" /\ error = AppPortConflictError) =>
           /\ IsPort(devConfig.port) /\ devConfig.port = settings.frameworkPort
           /\ Kinds \subseteq {"static"}

C8_Witness ==
    /\ pc = "failed" /\ error = AppPortConflictError
    /\ settings.useStaticServer
    /\ acquired = <<[kind |-> "static", port |-> devConfig.port]>>

C8_WitnessDetected ==
    /\ pc = "failed" /\ error = AppPortConflictError
    /\ ~settings.useStaticServer /\ NothingAcquired

-----------------------------------------------------------------------------
(* Calling detectServerSettings twice *)

BothDone == calls > 1 /\ pc = "done" /\ prev.pc = "done"

\* C7 as stated: two calls with the same arguments, the same free ports and
\* the same files return the same ServerSettings in every field.
C7_AsStated == BothDone => result = prev.result

PortFields == {"port", "frameworkPort", "functionsPort"}

\* C7, amended: two successful calls with the same arguments, free ports and
\* files agree on every field that is not a port; on port when devConfig.port
\* is set or 8888 is free; on frameworkPort when the static server is not
\* used, or staticServerPort is set, or 3999 is free; on functionsPort when
\* no functions server starts or devConfig.functionsPort is set and free.  A
\* port that has to be picked among the free ones need not come out the same.
C7_IdempotentUpToProbedPorts ==
    BothDone =>
        /\ \A f \in DOMAIN result \ PortFields : result[f] = prev.result[f]
        /\ (IsPort(devConfig.port) \/ IsFree(DEFAULT_PORT)) => result.port = prev.result.port
        /\ (~result.useStaticServer \/ IsPort(devConfig.staticServerPort) \/ IsFree(DEFAULT_STATIC_PORT)) =>
               result.frameworkPort = prev.result.frameworkPort
        /\ (~StartsFunctions \/ (IsPort(devConfig.functionsPort) /\ IsFree(devConfig.functionsPort))) =>
               result.functionsPort = prev.result.functionsPort

C7_Witness ==
    /\ BothDone
    /\ IsSet(devConfig.functions) /\ IsPort(devConfig.functionsPort)
    /\ result.functionsPort = devConfig.functionsPort
    /\ result = prev.result

-----------------------------------------------------------------------------
(* readHttpsSettings, step by step *)

DefaultConfig ==
    [framework |-> "#auto", command |-> Undefined, port |-> NoPort, targetPort |-> NoPort,
     staticServerPort |-> NoPort, functionsPort |-> NoPort, publish |-> Undefined,
     functions |-> Undefined, https |-> NoHttps, jwtSecret |-> Undefined,
     jwtRolePath |-> Undefined, pollingStrategies |-> None]

DetectIdle ==
    /\ devConfig = DefaultConfig
    /\ options = [dir |-> Undefined]
    /\ project = Project(<<>>, FALSE, 1, FullSetting)
    /\ occupied = {}
    /\ internalFunctionsDir = FALSE
    /\ pc = "idle"
    /\ settings = EmptySettings
    /\ result = EmptyResult
    /\ error = "none"
    /\ acquired = <<>>
    /\ detectionRan = FALSE
    /\ calls = 1
    /\ prev = NoCall

HttpsFiles == {Undefined, KeyFile, CertFile, NotAString}

InitHttps ==
    /\ DetectIdle
    /\ BuildIdle
    /\ TelemetryIdle
    /\ HelpersIdle
    /\ readable \in SUBSET {KeyFile, CertFile}
    /\ httpsOptions \in [shape : {"object", "other"}, keyFile : HttpsFiles, certFile : HttpsFiles]
    /\ httpsPc = "start"
    /\ reads = <<>>
    /\ settled = [key |-> "pending", cert |-> "pending"]
    /\ httpsError = "none"
    /\ httpsValue = None

httpsRest == <<devConfig, options, project, occupied, internalFunctionsDir, readable,
               pc, settings, result, error, acquired, detectionRan, calls, prev,
               httpsOptions, buildVars, telemetryVars, mergeFrameworkSettings, configVars>>

\* lines 27-41
HttpsValidate ==
    /\ httpsPc = "start"
    /\ IF httpsOptionsError(httpsOptions) # "none"
       THEN httpsPc' = "thrown" /\ httpsError' = httpsOptionsError(httpsOptions)
       ELSE httpsPc' = "validated" /\ UNCHANGED httpsError
    /\ UNCHANGED <<httpsRest, reads, settled, httpsValue>>

\* lines 43-46: both reads are issued, then both are awaited
HttpsRead ==
    /\ httpsPc = "validated"
    /\ reads' = <<httpsOptions.keyFile, httpsOptions.certFile>>
    /\ settled' = allSettled(httpsOptions)
    /\ httpsPc' = "settled"
    /\ UNCHANGED <<httpsRest, httpsError, httpsValue>>

\* lines 48-55
HttpsInspect ==
    /\ httpsPc = "settled"
    /\ IF settledError(settled) # "none"
       THEN httpsPc' = "thrown" /\ httpsError' = settledError(settled) /\ UNCHANGED httpsValue
       ELSE httpsPc' = "returned" /\ httpsValue' = Some(readHttpsValue(httpsOptions))
            /\ UNCHANGED httpsError
    /\ UNCHANGED <<httpsRest, reads, settled>>

NextHttps == HttpsValidate \/ HttpsRead \/ HttpsInspect

SpecHttps == InitHttps /\ [][NextHttps]_vars

\* The read failures an error message tells the user about.
reportedFailures(e) ==
    IF e = KeyReadError THEN {"key"}
    ELSE IF e = CertReadError THEN {"cert"}
    ELSE {}

\* C9: both reads are issued before a result is inspected, and when both
\* reads fail the error that is thrown reports both failures.
C9_BothFailuresReported ==
    /\ httpsPc \in {"settled", "returned"} \/ (httpsPc = "thrown" /\ httpsError \in {KeyReadError, CertReadError}) =>
           reads = <<httpsOptions.keyFile, httpsOptions.certFile>>
    /\ (httpsPc = "thrown" /\ settled.key = "rejected" /\ settled.cert = "rejected") =>
           reportedFailures(httpsError) = {"key", "cert"}

-----------------------------------------------------------------------------
(* runNetlifyBuild *)

INTERNAL_FUNCTIONS_FOLDER == "functions-internal"
INTERNAL_EDGE_FUNCTIONS_FOLDER == "edge-functions"
ConfigCopy == "netlify.toml"

BuildArgs ==
    [timeline : {"build", "dev"},
     configExists : BOOLEAN,       \* cachedConfig.configPath names a file
     buildSuccess : BOOLEAN,       \* what buildSite reports
     startDevSuccess : BOOLEAN,    \* what startDev reports
     startDevError : BOOLEAN,      \* startDev reports an error object
     startDevCallsBack : BOOLEAN,  \* startDev calls the devCommand it is given
     ipVersion : {4, 6},           \* what startFrameworkServer reports
     settings : [command : {Undefined, "npm run dev"}, useStaticServer : BOOLEAN]]

InitBuild ==
    /\ DetectIdle
    /\ HttpsIdle
    /\ TelemetryIdle
    /\ HelpersIdle
    /\ readable = {}
    /\ buildArgs \in BuildArgs
    /\ buildPc = "start"
    /\ internalDir \in {{}, {INTERNAL_FUNCTIONS_FOLDER, INTERNAL_EDGE_FUNCTIONS_FOLDER, ConfigCopy}}
    /\ trace = <<>>
    /\ frameworkHost = Undefined
    /\ returned = None

buildRest == <<devConfig, options, project, occupied, internalFunctionsDir, readable,
               pc, settings, result, error, acquired, detectionRan, calls, prev,
               httpsVars, buildArgs, telemetryVars, mergeFrameworkSettings, configVars>>

Event(name, arg) == [call |-> name, arg |-> arg]
NoArg == [command |-> Undefined, useStaticServer |-> FALSE]

\* { ...settings, ...settingsOverrides } with the overrides last but first.
spread_OverridesFirst(s, overrides) ==
    [f \in DOMAIN s \cup DOMAIN overrides |-> IF f \in DOMAIN s THEN s[f] ELSE overrides[f]]

\* { ...settings, ...settingsOverrides } of line 588-591
spread(s, overrides) ==
    [f \in DOMAIN s \cup DOMAIN overrides |-> IF f \in DOMAIN overrides THEN overrides[f] ELSE s[f]]

\* devCommand, lines 586-595
devCommand(settingsOverrides) ==
    /\ trace' = Append(trace, Event("startFrameworkServer", spread(buildArgs.settings, settingsOverrides)))
    /\ frameworkHost' = IF buildArgs.ipVersion = 6 THEN "::1" ELSE "127.0.0.1"

\* line 600
CleanInternalDirectory ==
    /\ buildPc = "start"
    /\ buildArgs.timeline = "build"
    /\ internalDir' = internalDir \ {INTERNAL_FUNCTIONS_FOLDER, INTERNAL_EDGE_FUNCTIONS_FOLDER, ConfigCopy}
    /\ trace' = Append(trace, Event("cleanInternalDirectory", NoArg))
    /\ buildPc' = "cleaned"
    /\ UNCHANGED <<buildRest, frameworkHost, returned>>

\* line 604; a failing copy is swallowed
CopyConfig ==
    /\ buildPc = "cleaned"
    /\ internalDir' = IF buildArgs.configExists THEN internalDir \cup {ConfigCopy} ELSE internalDir
    /\ trace' = Append(trace, Event("copyConfig", NoArg))
    /\ buildPc' = "copied"
    /\ UNCHANGED <<buildRest, frameworkHost, returned>>

\* lines 612-618
BuildSite ==
    /\ buildPc = "copied"
    /\ IF buildArgs.buildSuccess
       THEN /\ trace' = Append(trace, Event("buildSite", NoArg))
            /\ buildPc' = "built"
            /\ UNCHANGED returned
       ELSE /\ trace' = trace \o <<Event("buildSite", NoArg), Event("error", NoArg)>>
            /\ buildPc' = "returned"
            /\ returned' = Some([configPath |-> Undefined])
    /\ UNCHANGED <<buildRest, internalDir, frameworkHost>>

\* lines 622-627
StartStaticServer ==
    /\ buildPc = "built"
    /\ devCommand([command |-> Undefined, useStaticServer |-> TRUE])
    /\ buildPc' = "returned"
    /\ returned' = Some([configPath |-> ConfigCopy])
    /\ UNCHANGED <<buildRest, internalDir>>

\* line 640: startDev is called
StartDev ==
    /\ buildPc = "start"
    /\ buildArgs.timeline = "dev"
    /\ trace' = Append(trace, Event("startDev", NoArg))
    /\ buildPc' = "startDev"
    /\ UNCHANGED <<buildRest, internalDir, frameworkHost, returned>>

\* startDev calls the devCommand it was given
DevCallback ==
    /\ buildPc = "startDev"
    /\ buildArgs.startDevCallsBack
    /\ devCommand(<<>>)
    /\ buildPc' = "startDevRan"
    /\ UNCHANGED <<buildRest, internalDir, returned>>

\* lines 640-646: startDev returns
DevReturn ==
    /\ \/ buildPc = "startDev" /\ ~buildArgs.startDevCallsBack
       \/ buildPc = "startDevRan"
    /\ trace' = IF ~buildArgs.startDevSuccess /\ buildArgs.startDevError
                THEN Append(trace, Event("error", NoArg)) ELSE trace
    /\ buildPc' = "returned"
    /\ returned' = Some([configPath |-> Undefined])
    /\ UNCHANGED <<buildRest, internalDir, frameworkHost>>

NextBuild ==
    \/ CleanInternalDirectory
    \/ CopyConfig
    \/ BuildSite
    \/ StartStaticServer
    \/ StartDev
    \/ DevCallback
    \/ DevReturn

SpecBuild == InitBuild /\ [][NextBuild]_vars

Calls == [i \in 1..Len(trace) |-> trace[i].call]
IsPrefix(a, b) == Len(a) <= Len(b) /\ a = SubSeq(b, 1, Len(a))

BuildOrder ==
    <<"cleanInternalDirectory", "copyConfig", "buildSite",
      IF buildArgs.buildSuccess THEN "startFrameworkServer" ELSE "error">>

\* C10: in the build timeline the calls are, in this order, cleaning the
\* internal directory, copying the config, buildSite and then, only when the
\* build succeeded, startFrameworkServer with command = undefined and
\* useStaticServer = true; a failed build is followed by the error report
\* and never by startFrameworkServer; startDev is never called.
C10_BuildTimelineOrder ==
    buildArgs.timeline = "build" =>
        /\ IsPrefix(Calls, BuildOrder)
        /\ buildPc = "returned" => Calls = BuildOrder
        /\ \A i \in 1..Len(trace) :
              trace[i].call = "startFrameworkServer" =>
                  /\ buildArgs.buildSuccess
                  /\ trace[i].arg.command = Undefined
                  /\ trace[i].arg.useStaticServer

C10_Witness ==
    /\ buildArgs.timeline = "build" /\ buildArgs.buildSuccess
    /\ IsSet(buildArgs.settings.command) /\ ~buildArgs.settings.useStaticServer
    /\ buildPc = "returned"
    /\ trace[4] = Event("startFrameworkServer", [command |-> Undefined, useStaticServer |-> TRUE])

C10_WitnessFailure ==
    /\ buildArgs.timeline = "build" /\ ~buildArgs.buildSuccess
    /\ buildPc = "returned"
    /\ Calls = <<"cleanInternalDirectory", "copyConfig", "buildSite", "error">>

\* The external collaborator of the run reported failure.
CollaboratorFailed ==
    \/ buildArgs.timeline = "build" /\ ~buildArgs.buildSuccess
    \/ buildArgs.timeline = "dev" /\ ~buildArgs.startDevSuccess

\* C11: in both timelines, a run in which buildSite or startDev reported
\* success = false (startDev with or without an error object) has called the
\* error reporter by the time it returns.
C11_FailureReported ==
    (buildPc = "returned" /\ CollaboratorFailed) => Includes(Calls, "error")

-----------------------------------------------------------------------------
(* Telemetry around a CLI invocation *)

MaxInvocations == 2  \* how many times the CLI is invoked in a row

Flags == {"none", "--telemetry-enable", "--telemetry-disable"}
Commands == {"none", "api", "sites"}
CliArgs == [flag : Flags, command : Commands]

\* The wire contract of one tracking request.
TrackRequest(event) ==
    [method |-> "POST", path |-> "/track", event |-> event,
     userAgent |-> "netlify-cli/<version>"]

\* track sending whatever the opt-out setting says.
track_Ungated(disabled, event) == <<TrackRequest(event)>>

\* track: the requests it issues, gated by the opt-out setting.
track(disabled, event) == IF disabled THEN <<>> ELSE <<TrackRequest(event)>>

\* What the test's handler for POST /track has recorded.
requestMade == IF requests = <<>> THEN None ELSE Some(requests[Len(requests)])

InitTelemetry ==
    /\ DetectIdle
    /\ HttpsIdle
    /\ BuildIdle
    /\ HelpersIdle
    /\ readable = {}
    /\ cliArgs \in CliArgs
    /\ telemetryDisabled \in BOOLEAN
    /\ startDisabled = telemetryDisabled
    /\ telPc = "start"
    /\ requests = <<>>
    /\ invocations = 1

telemetryRest == <<devConfig, options, project, occupied, internalFunctionsDir, readable,
                   pc, settings, result, error, acquired, detectionRan, calls, prev,
                   httpsVars, buildVars, mergeFrameworkSettings, configVars>>

\* The telemetry flags toggle the persisted setting before anything else;
\* enabling is itself reported.
HandleFlags ==
    /\ telPc = "start"
    /\ telemetryDisabled' = IF cliArgs.flag = "--telemetry-disable" THEN TRUE
                            ELSE IF cliArgs.flag = "--telemetry-enable" THEN FALSE
                            ELSE telemetryDisabled
    /\ requests' = IF cliArgs.flag = "--telemetry-enable"
                   THEN requests \o track(telemetryDisabled', "cli:user_telemetryEnabled")
                   ELSE requests
    /\ telPc' = IF cliArgs.command = "none" THEN "exited" ELSE "command"
    /\ UNCHANGED <<telemetryRest, cliArgs, startDisabled, invocations>>

\* The command's action runs (`sites` prints its help).
RunCommand ==
    /\ telPc = "command"
    /\ telPc' = "ran"
    /\ UNCHANGED <<telemetryRest, cliArgs, telemetryDisabled, startDisabled, requests, invocations>>

\* The usage event sent around every command; a failing request is swallowed.
TrackCommand ==
    /\ telPc = "ran"
    /\ requests' = requests \o track(telemetryDisabled, "cli:command")
    /\ telPc' = "exited"
    /\ UNCHANGED <<telemetryRest, cliArgs, telemetryDisabled, startDisabled, invocations>>

\* The CLI is invoked again; the user-level setting persists, the record of
\* requests starts empty.
Invoke ==
    /\ telPc = "exited"
    /\ invocations < MaxInvocations
    /\ invocations' = invocations + 1
    /\ cliArgs' \in CliArgs
    /\ startDisabled' = telemetryDisabled
    /\ requests' = <<>>
    /\ telPc' = "start"
    /\ UNCHANGED <<telemetryRest, telemetryDisabled>>

NextTelemetry == HandleFlags \/ RunCommand \/ TrackCommand \/ Invoke

SpecTelemetry == InitTelemetry /\ [][NextTelemetry]_vars

\* C12: in an invocation with --telemetry-disable, whatever the command and
\* whatever the setting was before, the tracking endpoint gets no request.
C12_NoTrackingWhenDisabled ==
    cliArgs.flag = "--telemetry-disable" => (requests = <<>> /\ requestMade = None)

C12_Witness ==
    /\ cliArgs.flag = "--telemetry-disable"
    /\ cliArgs.command = "api"
    /\ ~startDisabled
    /\ telPc = "exited"
    /\ requests = <<>>

C12_WitnessEnabled ==
    /\ cliArgs = [flag |-> "--telemetry-enable", command |-> "none"]
    /\ startDisabled
    /\ telPc = "exited"
    /\ requests = <<TrackRequest("cli:user_telemetryEnabled")>>

-----------------------------------------------------------------------------
(* The '#auto' branch with a fully specified config *)

FullySpecified ==
    /\ NoDir
    /\ devConfig.framework = "#auto"
    /\ WellTyped
    /\ IsSet(devConfig.command)
    /\ IsPort(devConfig.targetPort)
    /\ devConfig.port # devConfig.targetPort

Resolved == pc \in {"resolved", "validated", "done"}

\* C13: with framework '#auto', no --dir, and command and targetPort both
\* configured (port different from targetPort), the detector is not invoked
\* and the resolved settings have command = devConfig.command, frameworkPort
\* = devConfig.targetPort and useStaticServer = false; the '#auto' branch
\* resolves through handleStaticServer only after a detection that was run
\* and found nothing.
C13_ConfiguredSkipsDetection ==
    /\ FullySpecified =>
          /\ ~detectionRan
          /\ Resolved =>
                /\ settings.command = devConfig.command
                /\ settings.frameworkPort = devConfig.targetPort
                /\ ~settings.useStaticServer
    /\ (NoDir /\ devConfig.framework = "#auto" /\ WellTyped /\ Resolved
          /\ settings.pollingStrategies = None) =>
          /\ detectionRan
          /\ Len(detectedSettings(project)) = 0

-----------------------------------------------------------------------------
(* mergeSettings, called on its own *)

MergeConfigs ==
    {[DefaultConfig EXCEPT !.command = c, !.targetPort = t, !.publish = d, !.staticServerPort = s] :
        c \in {Undefined, "npm run dev"}, t \in {NoPort, DEFAULT_PORT},
        d \in {Undefined, "public"}, s \in {NoPort, 5000}}

\* The frameworkSettings argument; EmptySettings is its default {}.
FrameworkSettings ==
    {[EmptySettings EXCEPT !.command = c, !.frameworkPort = p, !.dist = d,
                           !.framework = f, !.pollingStrategies = ps] :
        c \in {Undefined, "gatsby develop"}, p \in {NoPort, 5000},
        d \in {Undefined, "dist"}, f \in {Undefined, "Gatsby"},
        ps \in {None, Some(<<"TCP">>)}}

InitMerge ==
    /\ devConfig \in MergeConfigs
    /\ mergeFrameworkSettings \in FrameworkSettings
    /\ occupied \in OccupiedSets
    /\ options = [dir |-> Undefined]
    /\ project = Project(<<>>, FALSE, 1, FullSetting)
    /\ internalFunctionsDir = FALSE
    /\ readable = {}
    /\ pc = "merge"
    /\ settings = EmptySettings
    /\ result = EmptyResult
    /\ error = "none"
    /\ acquired = <<>>
    /\ detectionRan = FALSE
    /\ calls = 1
    /\ prev = NoCall
    /\ HttpsIdle
    /\ BuildIdle
    /\ TelemetryIdle
    /\ config = NoConfig
    /\ configPc = "idle"
    /\ configOut = None

\* lines 315-338
MergeSettings ==
    /\ pc = "merge"
    /\ Merge(mergeFrameworkSettings, None)
    /\ UNCHANGED <<inputs, detectionRan, calls, prev>>

NextMerge == MergeSettings

SpecMerge == InitMerge /\ [][NextMerge]_vars

\* C14: what mergeSettings returns has command = devConfig.command if set,
\* else the detected command; dist = devConfig.publish if set, else the
\* detected dist, else the current working directory; useStaticServer true
\* exactly when the merged command or the merged port (devConfig.targetPort
\* if set, else the detected port) is missing; frameworkPort = the merged
\* port when useStaticServer is false, and otherwise the port the
\* static-server acquisition gave (staticServerPort if configured).
C14_MergeRules ==
    pc = "resolved" =>
        LET command == IF devConfig.command # Undefined THEN devConfig.command
                       ELSE mergeFrameworkSettings.command
            port == IF devConfig.targetPort # NoPort THEN devConfig.targetPort
                    ELSE mergeFrameworkSettings.frameworkPort
        IN /\ settings.command = command
           /\ settings.dist = IF devConfig.publish # Undefined THEN devConfig.publish
                              ELSE IF mergeFrameworkSettings.dist # Undefined
                              THEN mergeFrameworkSettings.dist
                              ELSE Cwd
           /\ settings.useStaticServer <=> (command = Undefined \/ port = NoPort)
           /\ ~settings.useStaticServer => (settings.frameworkPort = port /\ acquired = <<>>)
           /\ settings.useStaticServer =>
                 /\ acquired = <<[kind |-> "static", port |-> settings.frameworkPort]>>
                 /\ settings.frameworkPort \in AllPorts \ occupied
                 /\ devConfig.staticServerPort # NoPort =>
                        settings.frameworkPort = devConfig.staticServerPort

C14_Witness ==
    /\ pc = "resolved"
    /\ devConfig.command = Undefined /\ mergeFrameworkSettings.command = "gatsby develop"
    /\ devConfig.targetPort = DEFAULT_PORT /\ mergeFrameworkSettings.frameworkPort = 5000
    /\ devConfig.publish = Undefined /\ mergeFrameworkSettings.dist = "dist"
    /\ settings.command = "gatsby develop"
    /\ settings.frameworkPort = DEFAULT_PORT
    /\ settings.dist = "dist"
    /\ ~settings.useStaticServer

C14_WitnessStatic ==
    /\ pc = "resolved"
    /\ devConfig.command = "npm run dev"
    /\ devConfig.targetPort = NoPort /\ mergeFrameworkSettings.frameworkPort = NoPort
    /\ DEFAULT_STATIC_PORT \in occupied
    /\ settings.useStaticServer
    /\ settings.frameworkPort \notin {NoPort, DEFAULT_STATIC_PORT}

-----------------------------------------------------------------------------
(* The externally reachable port and the framework port *)

\* C15 as stated: every ServerSettings that is returned has port different
\* from frameworkPort, also when devConfig.port is unset and the port is
\* probed from 8888 while frameworkPort is a free port.
C15_AsStated ==
    (pc = "done" /\ WellTyped /\ ~result.useStaticServer) => result.port # result.frameworkPort

\* C15, amended: a returned ServerSettings has port different from
\* frameworkPort whenever devConfig.port is configured (port is then that
\* configured port) or frameworkPort is a port in use; with devConfig.port
\* unset the port is probed from 8888 without looking at frameworkPort, so it
\* can only coincide with a frameworkPort that is free.
C15_ConfiguredPortDiffers ==
    pc = "done" =>
        /\ devConfig.port # NoPort =>
              /\ result.port = devConfig.port
              /\ result.port # result.frameworkPort
        /\ result.frameworkPort \in occupied => result.port # result.frameworkPort
        /\ result.port = result.frameworkPort =>
              /\ devConfig.port = NoPort
              /\ result.port \in AllPorts \ occupied

C15_Witness ==
    /\ pc = "done"
    /\ devConfig.port = 5000
    /\ ~result.useStaticServer
    /\ result.frameworkPort = DEFAULT_PORT
    /\ result.port = 5000

C15_WitnessProbed ==
    /\ pc = "done"
    /\ devConfig.port = NoPort
    /\ devConfig.framework = "#custom"
    /\ result.port = DEFAULT_PORT
    /\ result.frameworkPort = DEFAULT_PORT

-----------------------------------------------------------------------------
(* getConfigWithPlugins *)

MaxPlugins == 2      \* how many plugins a list holds at most

SeqsUpTo(S, n) == UNION {[1..k -> S] : k \in 0..n}

\* A plugin as netlify.toml or the UI declares it.
DeclaredPlugin(name) == [package |-> name, origin |-> "ui", inputs |-> "<inputs>"]

Configs ==
    [build : {Undefined, "npm run build"},
     plugins : {None} \cup {Some(ps) : ps \in SeqsUpTo({DeclaredPlugin("plugin-a"),
                                                          DeclaredPlugin("plugin-c")}, MaxPlugins)}]

SettingsPlugins ==
    {None} \cup {Some(ps) : ps \in SeqsUpTo({"plugin-a", "plugin-b"}, MaxPlugins)}

\* line 457: const { plugins: existingPlugins = [] } = config
existingPlugins(cfg) == IF cfg.plugins = None THEN <<>> ELSE cfg.plugins[1]

\* line 458
existingPluginNames(cfg) == {existingPlugins(cfg)[i].package : i \in 1..Len(existingPlugins(cfg))}

\* lines 459-467: map, then filter(Boolean)
RECURSIVE newPlugins(_, _)
newPlugins(cfg, pluginNames) ==
    IF pluginNames = <<>> THEN <<>>
    ELSE LET pluginName == Head(pluginNames)
             rest == newPlugins(cfg, Tail(pluginNames))
         IN IF pluginName \in existingPluginNames(cfg) THEN rest
            ELSE <<[package |-> pluginName, origin |-> "config", inputs |-> "{}"]>> \o rest

\* line 471: spreading config.plugins throws when it is undefined
spreadThrows(cfg) == cfg.plugins = None

InitConfig ==
    /\ devConfig = DefaultConfig
    /\ options = [dir |-> Undefined]
    /\ project = Project(<<>>, FALSE, 1, FullSetting)
    /\ occupied = {}
    /\ internalFunctionsDir = FALSE
    /\ readable = {}
    /\ pc = "idle"
    /\ settings \in {[EmptySettings EXCEPT !.plugins = ps] : ps \in SettingsPlugins}
    /\ result = EmptyResult
    /\ error = "none"
    /\ acquired = <<>>
    /\ detectionRan = FALSE
    /\ calls = 1
    /\ prev = NoCall
    /\ HttpsIdle
    /\ BuildIdle
    /\ TelemetryIdle
    /\ mergeFrameworkSettings = EmptySettings
    /\ config \in Configs
    /\ configPc = "start"
    /\ configOut = None

configRest == <<devConfig, options, project, occupied, internalFunctionsDir, readable,
                pc, settings, result, error, acquired, detectionRan, calls, prev,
                httpsVars, buildVars, telemetryVars, mergeFrameworkSettings>>

\* lines 448-473
GetConfigWithPlugins ==
    /\ configPc = "start"
    /\ IF settings.plugins = None
       THEN configPc' = "returned" /\ configOut' = Some(config)
       ELSE IF spreadThrows(config)
       THEN configPc' = "thrown" /\ UNCHANGED configOut
       ELSE /\ configPc' = "returned"
            /\ configOut' = Some([config EXCEPT
                   !.plugins = Some(newPlugins(config, settings.plugins[1]) \o config.plugins[1])])
    /\ UNCHANGED <<configRest, config>>

NextConfig == GetConfigWithPlugins

SpecConfig == InitConfig /\ [][NextConfig]_vars

\* The names in `names` that no plugin of `declared` carries, in order, each
\* as a plugin added by the CLI.
Added(declared, names) ==
    LET fresh == SelectSeq(names, LAMBDA n : \A i \in 1..Len(declared) : declared[i].package # n)
    IN [i \in 1..Len(fresh) |-> [package |-> fresh[i], origin |-> "config", inputs |-> "{}"]]

\* C16: for every config, also one without a plugins field, and every
\* settings, getConfigWithPlugins does not throw; it returns the config
\* itself when settings.plugins is absent, and otherwise a copy whose plugins
\* are the settings plugins not yet declared by package name, each as
\* {package, origin: 'config', inputs: {}}, followed by the declared plugins.
C16_ConfigWithPlugins ==
    /\ configPc # "thrown"
    /\ configPc = "returned" =>
          LET declared == IF config.plugins = None THEN <<>> ELSE config.plugins[1]
          IN IF settings.plugins = None
             THEN configOut = Some(config)
             ELSE /\ configOut[1].build = config.build
                  /\ configOut[1].plugins = Some(Added(declared, settings.plugins[1]) \o declared)

====
